---- MODULE Spec2Model ----
(***************************************************************************)
(* Model of AkaDakoBoard (src/vm/extensions/block/akadako-board.js): the   *)
(* connection life cycle, the event-correlated device queries, the         *)
(* NeoPixel strip registry with its throttled write queue, and the OneWire *)
(* device search.                                                          *)
(*                                                                         *)
(* One step of the model is one JavaScript task: a public method call up   *)
(* to its first suspension, a timer callback, or an event delivered by the *)
(* transport, each together with the promise reactions (microtasks) it     *)
(* triggers.                                                               *)
(***************************************************************************)
EXTENDS Integers, Sequences, FiniteSets, TLC

\* ---------------------------------------------------------------- bounds
MaxConn == 2      \* Firmata objects that exist at a time
MaxPending == 1   \* connect calls the application has in progress at a time
MaxReq == 2       \* device queries issued by the application
MaxFrames == 4    \* frames the application hands to the write scheduler
MaxLen == 5       \* largest strip length passed to neoPixelConfigStrip
MaxIndex == 2     \* largest LED index passed to neoPixelSetColor
MaxSearch == 2    \* OneWire bus searches whose outcome is kept at a time

Calls == 1..MaxConn                         \* call c constructs Firmata object c
UserReqs == (MaxConn + 1)..(MaxConn + MaxReq)
Reqs == 1..(MaxConn + MaxReq)               \* request c < MaxConn+1 is call c's bring-up query
Pins == {3, 7}
Lengths == {2, MaxLen}
Indexes == 0..MaxIndex
Colors == {1}
Searches == 1..MaxSearch
Bytes == 0..127                             \* the values of a 7-bit byte

VARIABLES
    state,            \* this.state
    version,          \* this.version (0 is null, 1 is the identity a board reported)
    firmata,          \* this.firmata (0 is null, else a Firmata object)
    neoPixel,         \* this.neoPixel
    oneWireDevices,   \* this.oneWireDevices (<<>> is null/undefined)
    fm,               \* the Firmata objects constructed so far
    respFm,           \* Firmata object the registered sysex response handlers emit on
    call,             \* connectSerial/connectMIDI invocations
    req,              \* device queries (PendingRequest)
    wire,             \* queries the board has still to answer (reply frames in flight)
    search,           \* OneWire searches
    queue,            \* neoPixelThrottledQueue: callbacks waiting to run
    pend,             \* neoPixelSetColor calls suspended in their implicit configuration
    nFrames,          \* frames the application has handed to the write scheduler
    cfgFirst,         \* history: rank of each pin by its first configuration in this session
    cfgLast,          \* history: rank of each pin by its last configuration in this session
    bytes,            \* a reply's payload handed to decodeInt16FromTwo7bitBytes
    result,           \* what decodeInt16FromTwo7bitBytes returned for it (<<>>: not called yet)
    events            \* history of the step just taken: the transport event it delivered or
                      \* the method the application called, where a claim tells them apart (from),
                      \* what it emitted, board events and runtime notification (emitted),
                      \* and the frame the write scheduler wrote, with its Firmata object (sent)

vars == <<state, version, firmata, neoPixel, oneWireDevices, fm, respFm, call, req,
          wire, search, queue, pend, nFrames, cfgFirst, cfgLast, bytes, result, events>>

boardVars == <<state, version, firmata, neoPixel, oneWireDevices>>
stripVars == <<neoPixel, queue, pend, nFrames, cfgFirst, cfgLast>>
queueVars == <<queue, pend, nFrames>>
decodeVars == <<bytes, result>>

\* the history of a step
Emitted(evs) == [from |-> <<>>, emitted |-> evs, sent |-> <<>>]
From(ev, f, evs) == [from |-> <<ev, f>>, emitted |-> evs, sent |-> <<>>]
Sent(frames) == [from |-> <<>>, emitted |-> <<>>, sent |-> frames]
Called(method, arg) == [from |-> <<method, arg>>, emitted |-> <<>>, sent |-> <<>>]

NoPins == [p \in Pins |-> 0]
NoFound == [p \in Pins |-> <<>>]

\* A Firmata object: made, its transport is open, the life cycle listeners lc of
\* setupFirmata are registered on it (live), it awaits the analog mapping, its pins
\* in ONEWIRE mode (ow) and, as history, what the last bus search of each pin found
NoFirmata == [made |-> FALSE, open |-> FALSE, live |-> FALSE, lc |-> {}, mapping |-> FALSE,
              ow |-> {}, found |-> NoFound]
NoCall == [kind |-> "none", phase |-> "none", outcome |-> "none"]
NoReq == [op |-> "none", pin |-> 0, f |-> 0, status |-> "none", on |-> FALSE, by |-> 0]
\* A OneWire call that could not finish at once: the method (op), how far its
\* promise chain is (step: "search" awaits the search reply, "read" awaits the read
\* reply, "end"), whether the library's once-listener for the search reply is
\* registered (on), and the state of the promise the caller holds (status)
NoSearch == [f |-> 0, pin |-> 0, op |-> "none", step |-> "none", on |-> FALSE,
             status |-> "none"]

\* constructor
InitBoard ==
    /\ state = "disconnect"
    /\ version = 0
    /\ firmata = 0
    /\ neoPixel = <<>>
    /\ oneWireDevices = <<>>
    /\ fm = [f \in Calls |-> NoFirmata]
    /\ respFm = 0
    /\ call = [c \in Calls |-> NoCall]
    /\ req = [r \in Reqs |-> NoReq]
    /\ wire = {}
    /\ search = [s \in Searches |-> NoSearch]
    /\ queue = <<>>
    /\ nFrames = 0
    /\ pend = {}
    /\ cfgFirst = NoPins
    /\ cfgLast = NoPins
    /\ events = Emitted(<<>>)

Init ==
    /\ InitBoard
    /\ bytes = <<0, 0>>
    /\ result = <<>>

\* ------------------------------------------------------- payload decoding
\* a | b and a & b of non-negative integers
RECURSIVE BitOr(_, _)
BitOr(a, b) ==
    IF a = 0 THEN b
    ELSE IF b = 0 THEN a
    ELSE (IF a % 2 = 1 \/ b % 2 = 1 THEN 1 ELSE 0) + 2 * BitOr(a \div 2, b \div 2)

RECURSIVE BitAnd(_, _)
BitAnd(a, b) ==
    IF a = 0 \/ b = 0 THEN 0
    ELSE (IF a % 2 = 1 /\ b % 2 = 1 THEN 1 ELSE 0) + 2 * BitAnd(a \div 2, b \div 2)

\* new DataView(new Uint8Array([lsb, msb]).buffer).getInt16(0, true): each element
\* is stored modulo 256, the two bytes are read little-endian as a signed 16-bit value
GetInt16LittleEndian(lsb, msb) ==
    LET u == (lsb % 256) + 256 * (msb % 256) IN
    IF u >= 32768 THEN u - 65536 ELSE u

\* a decoder that leaves the high bits of the upper byte clear
decodeWithoutSignExtension(data) ==
    LET lsb == BitAnd(BitOr(data[1], data[2] * 128), 255)
        msb == data[2] \div 2
    IN GetInt16LittleEndian(lsb, msb)

\* decodeInt16FromTwo7bitBytes(bytes)
decodeInt16FromTwo7bitBytes(data) ==
    LET lsb == BitAnd(BitOr(data[1], data[2] * 128), 255)
        msb == BitOr(data[2] \div 2, IF data[2] \div 64 # 0 THEN 192 ELSE 0)
    IN GetInt16LittleEndian(lsb, msb)

\* a reply listener of getDistanceByUltrasonic / getWaterTemp decodes its payload
decodeReply ==
    /\ result = <<>>
    /\ result' = <<decodeInt16FromTwo7bitBytes(bytes)>>
    /\ events' = Called("decodeInt16FromTwo7bitBytes", 0)
    /\ UNCHANGED <<boardVars, fm, respFm, call, req, wire, search, queueVars,
                   cfgFirst, cfgLast, bytes>>

\* ------------------------------------------------------- EventEmitter
\* firmata.removeAllListeners(event) on Firmata object f
RemoveListeners(rq, f, op, pin) ==
    [q \in Reqs |-> IF rq[q].f = f /\ rq[q].op = op /\ rq[q].pin = pin
                    THEN [rq[q] EXCEPT !.on = FALSE] ELSE rq[q]]

\* firmata.removeAllListeners() on Firmata object f: the query listeners
RemoveAllListeners(rq, f) ==
    [q \in Reqs |-> IF rq[q].f = f THEN [rq[q] EXCEPT !.on = FALSE] ELSE rq[q]]

\* firmata.removeAllListeners() on Firmata object f: the library's own once-listeners
\* for OneWire search replies
DropSearches(ss, f) ==
    [s \in Searches |-> IF ss[s].f = f /\ (ss[s].on \/ ss[s].step \in {"search", "read"})
                        THEN [ss[s] EXCEPT !.on = FALSE, !.step = "end",
                                           !.status = IF @ = "pending" THEN "dropped" ELSE @]
                        ELSE ss[s]]

\* ------------------------------------------------------- releaseBoard
\* a releaseBoard() that forgets to empty the strip registry and the OneWire cache
releaseBoardKeepingCaches(evs, fms, rqs) ==
    /\ state' = "disconnect"
    /\ fm' = IF firmata # 0
             THEN [fms EXCEPT ![firmata] =
                      [@ EXCEPT !.open = FALSE, !.live = FALSE, !.lc = {}, !.mapping = FALSE]]
             ELSE fms
    /\ req' = IF firmata # 0 THEN RemoveAllListeners(rqs, firmata) ELSE rqs
    /\ search' = IF firmata # 0 THEN DropSearches(search, firmata) ELSE search
    /\ firmata' = 0
    /\ events' = [evs EXCEPT !.emitted = @ \o <<"disconnect", "RELEASED">>]
    /\ UNCHANGED <<version, neoPixel, oneWireDevices, respFm, wire, queueVars,
                   cfgFirst, cfgLast, decodeVars>>

\* releaseBoard(), run after the caller has produced evs, fms, rqs
releaseBoard(evs, fms, rqs) ==
    /\ state' = "disconnect"
    /\ neoPixel' = <<>>
    /\ fm' = IF firmata # 0
             THEN [fms EXCEPT ![firmata] =
                      [@ EXCEPT !.open = FALSE, !.live = FALSE, !.lc = {}, !.mapping = FALSE]]
             ELSE fms
    /\ req' = IF firmata # 0 THEN RemoveAllListeners(rqs, firmata) ELSE rqs
    /\ search' = IF firmata # 0 THEN DropSearches(search, firmata) ELSE search
    /\ firmata' = 0
    /\ oneWireDevices' = <<>>
    /\ events' = [evs EXCEPT !.emitted = @ \o <<"disconnect", "RELEASED">>]
    /\ cfgFirst' = NoPins
    /\ cfgLast' = NoPins
    /\ UNCHANGED <<version, respFm, wire, queueVars, decodeVars>>

\* ------------------------------------------------- connection life cycle
FreeCalls == {c \in Calls : call[c].kind = "none"}
FreeReqs == {r \in UserReqs : req[r].op = "none"}
Least(S) == CHOOSE x \in S : \A y \in S : x <= y

Settle(c, cl) == [cl EXCEPT ![c].outcome = IF @ = "pending" THEN "resolved" ELSE @]

\* a connect call that starts over although a Firmata object is in use
connectAlreadyStartingOver(kind) ==
    /\ firmata # 0
    /\ state' = "portRequesting"
    /\ events' = Called(kind, 0)
    /\ UNCHANGED <<version, firmata, neoPixel, oneWireDevices, fm, respFm, call, req, wire,
                   search, queueVars, cfgFirst, cfgLast, decodeVars>>

\* connectSerial / connectMIDI while this.firmata is set: returns this
connectAlready(kind) ==
    /\ firmata # 0
    /\ events' = Called(kind, 0)
    /\ UNCHANGED <<boardVars, fm, respFm, call, req, wire, search, queueVars,
                   cfgFirst, cfgLast, decodeVars>>

\* A finished connect call whose Firmata object can act no more: its transport is
\* closed, its listeners are removed and nothing waits on it.  The model forgets
\* such objects when the next connect call is made.
Garbage(c) ==
    /\ call[c].kind # "none"
    /\ call[c].outcome # "pending"
    /\ firmata # c
    /\ fm[c].made => ~fm[c].open /\ ~fm[c].live
    /\ \A q \in Reqs : req[q].f = c => req[q].status # "pending"
    /\ \A s \in Searches : search[s].f = c =>
                                ~search[s].on /\ search[s].step \notin {"search", "read"}

Forgotten == 0 - 1

\* connectSerial / connectMIDI up to the await of the port, for an application
\* that keeps at most limit connect calls in progress
connectCall(kind, limit) ==
    LET gone == {c \in Calls : Garbage(c)}
        slots == FreeCalls \cup gone
    IN
    /\ firmata = 0
    /\ slots # {}
    /\ Cardinality(Calls \ slots) < limit
    /\ state' = "portRequesting"
    /\ call' = [c \in Calls |->
                  IF c = Least(slots)
                  THEN [kind |-> kind, phase |-> "port", outcome |-> "pending"]
                  ELSE IF c \in gone THEN NoCall ELSE call[c]]
    /\ fm' = [c \in Calls |-> IF c \in gone THEN NoFirmata ELSE fm[c]]
    /\ req' = [q \in Reqs |-> IF q \in gone THEN NoReq
                              ELSE IF req[q].f \in gone THEN [req[q] EXCEPT !.f = 0]
                              ELSE req[q]]
    /\ wire' = {q \in wire : req[q].f \notin gone}
    /\ search' = [s \in Searches |-> IF search[s].f \in gone
                                     THEN [search[s] EXCEPT !.f = 0] ELSE search[s]]
    /\ respFm' = IF respFm \in gone THEN 0 ELSE respFm
    /\ queue' = [i \in 1..Len(queue) |-> IF queue[i].f \in gone
                                        THEN [queue[i] EXCEPT !.f = Forgotten] ELSE queue[i]]
    /\ events' = Called(kind, 0)
    /\ UNCHANGED <<version, firmata, neoPixel, oneWireDevices, pend, nFrames,
                   cfgFirst, cfgLast, decodeVars>>

connectSerial == connectCall("serial", MaxPending)
connectMIDI == connectCall("midi", MaxPending)

\* openSerialPort / openMIDIPort rejects: the connect call rejects before the race exists
openPortRejected(c) ==
    /\ call[c].phase = "port"
    /\ call' = [call EXCEPT ![c].phase = "noport", ![c].outcome = "rejected"]
    /\ events' = Emitted(<<>>)
    /\ UNCHANGED <<boardVars, fm, respFm, req, wire, search, queueVars,
                   cfgFirst, cfgLast, decodeVars>>

\* The callback given to new Firmata(...): setupFirmata(firmata), await
\* this.boardVersion(), then onBoardReady() (serial) or queryAnalogMapping (MIDI).
\* fms is the Firmata table with object c constructed.
firmataReady(c, fms) ==
    LET lcs == {"open", "close", "disconnect", "error"} IN
    /\ firmata' = c
    /\ respFm' = c
    /\ IF version # 0
       THEN /\ UNCHANGED <<req, wire, decodeVars>>
            /\ IF call[c].kind = "serial"
               THEN /\ fm' = [fms EXCEPT ![c].live = TRUE, ![c].lc = lcs]
                    /\ state' = "ready"
                    /\ events' = Emitted(<<"ready">>)
                    /\ call' = Settle(c, [call EXCEPT ![c].phase = "ready"])
               ELSE /\ fm' = [fms EXCEPT ![c].live = TRUE, ![c].lc = lcs, ![c].mapping = TRUE]
                    /\ call' = [call EXCEPT ![c].phase = "mapping"]
                    /\ events' = Emitted(<<>>)
                    /\ UNCHANGED state
       ELSE /\ fm' = [fms EXCEPT ![c].live = TRUE, ![c].lc = lcs]
            /\ req' = [req EXCEPT ![c] = [op |-> "version", pin |-> 0, f |-> c,
                                          status |-> "pending", on |-> TRUE, by |-> 0]]
            /\ wire' = wire \cup {c}
            /\ call' = [call EXCEPT ![c].phase = "version"]
            /\ events' = Emitted(<<>>)
            /\ UNCHANGED state
    /\ UNCHANGED <<version, neoPixel, oneWireDevices, search, queueVars, cfgFirst, cfgLast, decodeVars>>

Constructed == [made |-> TRUE, open |-> TRUE, live |-> FALSE, lc |-> {}, mapping |-> FALSE,
                ow |-> {}, found |-> NoFound]

\* the port is acquired: new Firmata(port, ..., callback) and the race against
\* timeoutReject(connectingWaitingTime).  connectMIDI emits reportversion and
\* queryfirmware itself, which runs the callback at once.
openPortResolved(c) ==
    /\ call[c].phase = "port"
    /\ IF call[c].kind = "serial"
       THEN /\ fm' = [fm EXCEPT ![c] = Constructed]
            /\ call' = [call EXCEPT ![c].phase = "bringup"]
            /\ events' = Emitted(<<>>)
            /\ UNCHANGED <<boardVars, respFm, req, wire, search, queueVars,
                           cfgFirst, cfgLast, decodeVars>>
       ELSE firmataReady(c, [fm EXCEPT ![c] = Constructed])

\* the serial board has reported version, firmware and capabilities
firmataReadyCallback(c) ==
    /\ call[c].kind = "serial"
    /\ call[c].phase = "bringup"
    /\ fm[c].open
    /\ firmataReady(c, fm)

\* the analog mapping response arrives (connectMIDI): onBoardReady(); resolve(this)
analogMappingReply(c) ==
    /\ call[c].phase = "mapping"
    /\ fm[c].mapping
    /\ fm[c].open
    /\ fm' = [fm EXCEPT ![c].mapping = FALSE]
    /\ IF firmata # 0
       THEN /\ state' = "ready"
            /\ events' = Emitted(<<"ready">>)
            /\ call' = Settle(c, [call EXCEPT ![c].phase = "ready"])
       ELSE /\ call' = [call EXCEPT ![c].phase = "dead"]
            /\ events' = Emitted(<<>>)
            /\ UNCHANGED state
    /\ UNCHANGED <<version, firmata, neoPixel, oneWireDevices, respFm, req, wire,
                   search, queueVars, cfgFirst, cfgLast, decodeVars>>

\* timeoutReject(connectingWaitingTime) wins the race: .catch runs releaseBoard()
connectTimeout(c) ==
    /\ call[c].outcome = "pending"
    /\ call[c].phase \in {"bringup", "version", "mapping", "dead"}
    /\ call' = [call EXCEPT ![c].outcome = "rejected"]
    /\ releaseBoard(Emitted(<<>>), fm, req)

\* disconnect()
disconnect(evs, fms) ==
    /\ state # "disconnect"
    /\ releaseBoard(evs, fms, req)

disconnectCall ==
    /\ UNCHANGED call
    /\ IF state = "disconnect"
       THEN /\ events' = Called("disconnectCall", 0)
            /\ UNCHANGED <<boardVars, fm, respFm, req, wire, search, queueVars,
                           cfgFirst, cfgLast, decodeVars>>
       ELSE disconnect(Called("disconnectCall", 0), fm)

\* disconnect() while the transport is open and this.firmata.reset() throws on the
\* write: the exception leaves disconnect() before releaseBoard()
disconnectCallResetThrows ==
    /\ state # "disconnect"
    /\ firmata # 0
    /\ fm[firmata].open
    /\ events' = Called("disconnectCall", 0)
    /\ UNCHANGED <<boardVars, fm, respFm, call, req, wire, search, queueVars,
                   cfgFirst, cfgLast, decodeVars>>

\* handleDisconnectError(error)
handleDisconnectError(evs, fms) ==
    /\ state # "disconnect"
    /\ disconnect([evs EXCEPT !.emitted = Append(@, "LOST")], fms)

Ignored(evs, fms) ==
    /\ fm' = fms
    /\ events' = evs
    /\ UNCHANGED <<boardVars, respFm, req, wire, search, queueVars,
                   cfgFirst, cfgLast, decodeVars>>

\* the transport of Firmata object f emits 'open'
onOpen(f) ==
    /\ fm[f].live
    /\ UNCHANGED call
    /\ fm' = [fm EXCEPT ![f].open = TRUE, ![f].lc = @ \ {"open"}]
    /\ IF "open" \in fm[f].lc /\ firmata = f
       THEN /\ state' = "connect"
            /\ events' = From("open", f, <<"connect">>)
       ELSE UNCHANGED state /\ events' = From("open", f, <<>>)
    /\ UNCHANGED <<version, firmata, neoPixel, oneWireDevices, respFm, req, wire,
                   search, queueVars, cfgFirst, cfgLast, decodeVars>>

\* the transport of Firmata object f emits 'close'
onClose(f) ==
    /\ fm[f].live
    /\ UNCHANGED call
    /\ LET fms == [fm EXCEPT ![f].open = FALSE, ![f].lc = @ \ {"close"}] IN
       IF "close" \in fm[f].lc /\ firmata = f /\ state # "disconnect"
       THEN releaseBoard(From("close", f, <<>>), fms, req)
       ELSE Ignored(From("close", f, <<>>), fms)

\* the transport of Firmata object f emits 'disconnect'
onDisconnect(f) ==
    /\ fm[f].live
    /\ UNCHANGED call
    /\ LET fms == [fm EXCEPT ![f].open = FALSE, ![f].lc = @ \ {"disconnect"}] IN
       IF "disconnect" \in fm[f].lc /\ firmata = f /\ state # "disconnect"
       THEN handleDisconnectError(From("disconnect", f, <<>>), fms)
       ELSE Ignored(From("disconnect", f, <<>>), fms)

\* the transport of Firmata object f emits 'error'
onError(f) ==
    /\ fm[f].live
    /\ UNCHANGED call
    /\ LET fms == [fm EXCEPT ![f].lc = @ \ {"error"}] IN
       IF "error" \in fm[f].lc /\ firmata = f /\ state # "disconnect"
       THEN handleDisconnectError(From("error", f, <<>>), fms)
       ELSE Ignored(From("error", f, <<>>), fms)

\* ------------------------------------------------------ device queries
\* a correlation that ignores the pin
SameKeyOfAnyPin(q, r) == req[q].op = req[r].op

\* requests q and r wait for the same reply event (the event name holds the pin)
SameKey(q, r) == req[q].op = req[r].op /\ req[q].pin = req[r].pin

\* firmata.once(event, ...) then firmata.sysexCommand(query) on this.firmata
Register(r, op, pin) ==
    /\ req' = [req EXCEPT ![r] = [op |-> op, pin |-> pin, f |-> firmata,
                                  status |-> "pending", on |-> TRUE, by |-> 0]]
    /\ wire' = wire \cup {r}

\* boardVersion(timeout) called by the application while no version is known
boardVersion ==
    /\ version = 0
    /\ firmata # 0
    /\ FreeReqs # {}
    /\ Register(Least(FreeReqs), "version", 0)
    /\ events' = Emitted(<<>>)
    /\ UNCHANGED <<boardVars, fm, respFm, call, search, queueVars, cfgFirst, cfgLast, decodeVars>>

\* getDistanceByUltrasonic(pin, timeout)
getDistanceByUltrasonic(pin) ==
    /\ firmata # 0
    /\ FreeReqs # {}
    /\ fm' = [fm EXCEPT ![firmata].ow = @ \ {pin}]
    /\ Register(Least(FreeReqs), "ultra", pin)
    /\ events' = Emitted(<<>>)
    /\ UNCHANGED <<boardVars, respFm, call, search, queueVars, cfgFirst, cfgLast, decodeVars>>

\* getWaterTemp(pin, timeout)
getWaterTemp(pin) ==
    /\ firmata # 0
    /\ FreeReqs # {}
    /\ Register(Least(FreeReqs), "water", pin)
    /\ events' = Emitted(<<>>)
    /\ UNCHANGED <<boardVars, fm, respFm, call, search, queueVars, cfgFirst, cfgLast, decodeVars>>

\* i2cReadOnce(address, register, readLength, timeout): the library registers the
\* once-listener of I2C-reply-<address>-<register> and writes the read request
i2cReadOnce(address) ==
    /\ firmata # 0
    /\ FreeReqs # {}
    /\ Register(Least(FreeReqs), "i2c", address)
    /\ events' = Emitted(<<>>)
    /\ UNCHANGED <<boardVars, fm, respFm, call, search, queueVars, cfgFirst, cfgLast, decodeVars>>

\* The listeners of Firmata object tgt that an emit of r's reply event runs
Fired(r, tgt) == {q \in Reqs : req[q].on /\ req[q].f = tgt /\ SameKey(q, r)}

\* The once-listener of request q runs on the frame that answers request r
Resolve(q, r, empty) ==
    [req[q] EXCEPT !.on = FALSE,
                   !.by = r,
                   !.status = IF @ # "pending" THEN @
                              ELSE IF empty /\ req[q].op \in {"ultra", "water"} THEN "rejected"
                              ELSE "resolved"]

\* The board's answer to query r arrives on the transport the query was written
\* to; the sysexResponse handler registered by setupFirmata emits the reply
\* event on the Firmata object it was registered for.  An I2C reply is emitted by
\* the library on the Firmata object that received it.
deliverReply(r, empty) ==
    /\ r \in wire
    /\ empty => req[r].op \in {"ultra", "water"}
    /\ fm[req[r].f].open
    /\ wire' = wire \ {r}
    /\ LET fired == IF req[r].op = "i2c" THEN Fired(r, req[r].f)
                    ELSE IF respFm = 0 THEN {} ELSE Fired(r, respFm)
           cont == {c \in Calls : c \in fired /\ call[c].phase = "version"}
           ready == {c \in cont : call[c].kind = "serial" /\ firmata # 0}
           dead == {c \in cont : call[c].kind = "serial" /\ firmata = 0}
           mapq == {c \in cont : call[c].kind = "midi"}
       IN
        /\ req' = [q \in Reqs |-> IF q \in fired THEN Resolve(q, r, empty) ELSE req[q]]
        /\ version' = IF fired # {} /\ req[r].op = "version" THEN 1 ELSE version
        /\ state' = IF ready # {} THEN "ready" ELSE state
        /\ events' = Emitted(IF ready # {} THEN <<"ready">> ELSE <<>>)
        /\ fm' = [f \in Calls |-> IF f \in mapq THEN [fm[f] EXCEPT !.mapping = TRUE] ELSE fm[f]]
        /\ call' = [c \in Calls |->
                      IF c \in ready
                      THEN [call[c] EXCEPT !.phase = "ready",
                                           !.outcome = IF @ = "pending" THEN "resolved" ELSE @]
                      ELSE IF c \in dead THEN [call[c] EXCEPT !.phase = "dead"]
                      ELSE IF c \in mapq THEN [call[c] EXCEPT !.phase = "mapping"]
                      ELSE call[c]]
    /\ UNCHANGED <<firmata, neoPixel, oneWireDevices, respFm, search, queueVars,
                   cfgFirst, cfgLast, decodeVars>>

\* a timeout handler that gives the session up
requestTimeoutReleasing(r) ==
    /\ req[r].status = "pending"
    /\ UNCHANGED call
    /\ releaseBoard(Emitted(<<>>), fm, [req EXCEPT ![r].status = "timeout"])

\* timeoutReject(timeout) wins the race of request r: .catch removes the listeners
\* of r's event from the Firmata object r was sent on and rejects
requestTimeout(r) ==
    /\ req[r].status = "pending"
    /\ req' = [RemoveListeners(req, req[r].f, req[r].op, req[r].pin)
                 EXCEPT ![r].status = "timeout"]
    /\ call' = IF r \in Calls /\ call[r].phase = "version"
               THEN [call EXCEPT ![r].phase = "dead"] ELSE call
    /\ events' = Emitted(<<>>)
    /\ UNCHANGED <<boardVars, fm, respFm, wire, search, queueVars, cfgFirst, cfgLast, decodeVars>>

\* ------------------------------------------------- NeoPixel strip registry
HasStrip(np, pin) == \E i \in 1..Len(np) : np[i].pin = pin
StripOf(np, pin) == np[CHOOSE i \in 1..Len(np) : np[i].pin = pin]
NotPin(np, pin) == LET Test(aStrip) == aStrip.pin # pin IN SelectSeq(np, Test)

\* a registry update that replaces the strip of a registered pin where it stands
ConfigStripInPlace(np, pin, length) ==
    IF HasStrip(np, pin)
    THEN [i \in 1..Len(np) |-> IF np[i].pin = pin THEN [np[i] EXCEPT !.length = length]
                                                  ELSE np[i]]
    ELSE Append(np, [pin |-> pin, length |-> length, colors |-> <<>>])

\* neoPixelConfigStrip, the registry update: filter the pin out, push the strip
ConfigStrip(np, pin, length) ==
    IF HasStrip(np, pin)
    THEN Append(NotPin(np, pin), [StripOf(np, pin) EXCEPT !.length = length])
    ELSE Append(NotPin(np, pin), [pin |-> pin, length |-> length, colors |-> <<>>])

\* neoPixelConfigStrip, the message: one (pin, length) entry per strip, in registry order
ConfigTable(np) == [i \in 1..Len(np) |-> [pin |-> np[i].pin, length |-> np[i].length]]

\* a callback given to the throttled queue: the message it will write, the id by
\* which a suspended neoPixelSetColor call awaits it (0: nobody awaits it), and as
\* history the pin and index arguments of the call that made it and the Firmata
\* object that was in use when it was enqueued (0: none, Forgotten: an object of
\* an earlier session that the model has forgotten)
Frame(id, type, table, address, color, pin, index) ==
    [id |-> id, type |-> type, table |-> table, address |-> address, color |-> color,
     pin |-> pin, index |-> index, f |-> firmata]

\* an address loop that does not wrap the index around the strip length
RECURSIVE AddressLoopWithoutWrap(_, _, _, _, _, _)
AddressLoopWithoutWrap(np, i, pin, index, address, prevStrip) ==
    IF i > Len(np) THEN <<address, prevStrip>>
    ELSE LET hit == np[i].pin = pin
             a1 == IF hit THEN address + index ELSE address
             p1 == IF hit THEN FALSE ELSE prevStrip
             a2 == IF p1 THEN a1 + np[i].length ELSE a1
         IN AddressLoopWithoutWrap(np, i + 1, pin, index, a2, p1)

\* neoPixelSetColor, the loop over this.neoPixel: <<address, prevStrip>>.  The index
\* is not negative here, so Math.max(0, index % aStrip.length) is index % length.
RECURSIVE AddressLoop(_, _, _, _, _, _)
AddressLoop(np, i, pin, index, address, prevStrip) ==
    IF i > Len(np) THEN <<address, prevStrip>>
    ELSE LET hit == np[i].pin = pin
             a1 == IF hit THEN address + (index % np[i].length) ELSE address
             p1 == IF hit THEN FALSE ELSE prevStrip
             a2 == IF p1 THEN a1 + np[i].length ELSE a1
         IN AddressLoop(np, i + 1, pin, index, a2, p1)

Address(np, pin, index) == AddressLoop(np, 1, pin, index, 0, TRUE)[1]
PrevStrip(np, pin, index) == AddressLoop(np, 1, pin, index, 0, TRUE)[2]

\* strip.colors = strip.colors || Array(strip.length); strip.colors[index] = color
SetColorAt(strip, index, color) ==
    LET base == IF strip.colors = <<>> THEN [i \in 1..strip.length |-> 0] ELSE strip.colors
        n == IF Len(base) > index THEN Len(base) ELSE index + 1
    IN [strip EXCEPT !.colors = [i \in 1..n |-> IF i = index + 1 THEN color
                                                ELSE IF i <= Len(base) THEN base[i] ELSE 0]]

StoreColor(np, pin, index, color) ==
    [i \in 1..Len(np) |-> IF np[i].pin = pin THEN SetColorAt(np[i], index, color) ELSE np[i]]

\* history: pin is configured; it takes the next rank if it has none
RankFirst(rank, pin) ==
    [rank EXCEPT ![pin] = IF @ = 0 THEN Cardinality({p \in Pins : rank[p] # 0}) + 1 ELSE @]

\* history: pin is configured; it takes the last rank, the pins behind it move up
RankLast(rank, pin) ==
    [p \in Pins |->
        IF p = pin THEN Cardinality({q \in Pins : rank[q] # 0} \cup {pin})
        ELSE IF rank[pin] # 0 /\ rank[p] > rank[pin] THEN rank[p] - 1
        ELSE rank[p]]

\* an id no waiting frame carries
FreshId == Least((1..MaxFrames) \ {queue[i].id : i \in 1..Len(queue)})

\* neoPixelConfigStrip(pin, length) called by the application
neoPixelConfigStrip(pin, length) ==
    /\ firmata # 0
    /\ nFrames < MaxFrames
    /\ nFrames' = nFrames + 1
    /\ fm' = [fm EXCEPT ![firmata].ow = @ \ {pin}]
    /\ neoPixel' = ConfigStrip(neoPixel, pin, length)
    /\ queue' = Append(queue, Frame(0, "config",
                                    ConfigTable(ConfigStrip(neoPixel, pin, length)),
                                    0, 0, pin, 0))
    /\ cfgFirst' = RankFirst(cfgFirst, pin)
    /\ cfgLast' = RankLast(cfgLast, pin)
    /\ events' = Emitted(<<>>)
    /\ UNCHANGED <<state, version, firmata, oneWireDevices, respFm, call, req, wire,
                   search, pend, decodeVars>>

\* neoPixelSetColor(pin, color, index) on a pin that has a strip
neoPixelSetColor(pin, color, index) ==
    /\ ~PrevStrip(neoPixel, pin, index)
    /\ nFrames < MaxFrames
    /\ nFrames' = nFrames + 1
    /\ neoPixel' = StoreColor(neoPixel, pin, index, color)
    /\ queue' = Append(queue, Frame(0, "set", <<>>,
                                    Address(neoPixel, pin, index), color, pin, index))
    /\ events' = Emitted(<<>>)
    /\ UNCHANGED <<state, version, firmata, oneWireDevices, fm, respFm, call, req, wire,
                   search, pend, cfgFirst, cfgLast, decodeVars>>

\* neoPixelSetColor(pin, color, index) on a pin without a strip, up to
\* await this.neoPixelConfigStrip(pin, this.defaultNeoPixelLength)
defaultNeoPixelLength == 3

neoPixelSetColorUnconfigured(pin, color, index) ==
    /\ PrevStrip(neoPixel, pin, index)
    /\ firmata # 0
    /\ nFrames + 2 <= MaxFrames
    /\ nFrames' = nFrames + 2
    /\ fm' = [fm EXCEPT ![firmata].ow = @ \ {pin}]
    /\ neoPixel' = ConfigStrip(neoPixel, pin, defaultNeoPixelLength)
    /\ queue' = Append(queue, Frame(FreshId, "config",
                   ConfigTable(ConfigStrip(neoPixel, pin, defaultNeoPixelLength)),
                   0, 0, pin, 0))
    /\ pend' = pend \cup {[wait |-> FreshId, pin |-> pin, color |-> color, index |-> index,
                           address |-> Address(neoPixel, pin, index)]}
    /\ cfgFirst' = RankFirst(cfgFirst, pin)
    /\ cfgLast' = RankLast(cfgLast, pin)
    /\ events' = Emitted(<<>>)
    /\ UNCHANGED <<state, version, firmata, oneWireDevices, respFm, call, req, wire,
                   search, decodeVars>>

\* a neoPixelShow() whose frame overtakes the frames that wait
neoPixelShowOvertaking ==
    /\ nFrames < MaxFrames
    /\ nFrames' = nFrames + 1
    /\ queue' = <<Frame(0, "show", <<>>, 0, 0, 0, 0)>> \o queue
    /\ events' = Emitted(<<>>)
    /\ UNCHANGED <<boardVars, fm, respFm, call, req, wire, search, pend,
                   cfgFirst, cfgLast, decodeVars>>

\* neoPixelFillColor, the two ifs on oldColors: the array is strip.colors itself,
\* so a buffer shorter than the strip is extended and a longer one is cut
FitColors(strip) ==
    IF strip.colors = <<>> THEN strip
    ELSE [strip EXCEPT !.colors = [i \in 1..strip.length |->
                                      IF i <= Len(strip.colors) THEN strip.colors[i] ELSE 0]]

\* neoPixelFillColor(pin, () => null): no index has a color, so neoPixelSetColor is
\* never called.  (With a colorMapFn that returns colors the call is this step
\* followed by neoPixelSetColor(pin, color, index) for index 0, 1, ..., each made
\* when the frame of the one before has been sent.)
neoPixelFillColorNull(pin) ==
    /\ neoPixel' = [i \in 1..Len(neoPixel) |->
                       IF neoPixel[i].pin = pin THEN FitColors(neoPixel[i]) ELSE neoPixel[i]]
    /\ events' = Called("neoPixelFillColor", pin)
    /\ UNCHANGED <<state, version, firmata, oneWireDevices, fm, respFm, call, req, wire,
                   search, queueVars, cfgFirst, cfgLast, decodeVars>>

\* neoPixelShow()
neoPixelShow ==
    /\ nFrames < MaxFrames
    /\ nFrames' = nFrames + 1
    /\ queue' = Append(queue, Frame(0, "show", <<>>, 0, 0, 0, 0))
    /\ events' = Emitted(<<>>)
    /\ UNCHANGED <<boardVars, fm, respFm, call, req, wire, search, pend,
                   cfgFirst, cfgLast, decodeVars>>

\* The throttled queue runs its oldest callback, this.firmata.sysexCommand(message),
\* and the neoPixelSetColor call that awaited it continues (or fails with it).
queueRun ==
    /\ queue # <<>>
    /\ LET frame == Head(queue)
           ok == firmata # 0
           woken == {p \in pend : p.wait = frame.id}
           go == {p \in woken : ok /\ HasStrip(neoPixel, p.pin)}
       IN
        /\ events' = Sent(IF ok THEN <<[f |-> firmata, frame |-> frame]>> ELSE <<>>)
        /\ pend' = pend \ woken
        /\ IF go = {}
           THEN /\ queue' = Tail(queue)
                /\ UNCHANGED neoPixel
           ELSE LET p == CHOOSE x \in go : TRUE IN
                /\ neoPixel' = StoreColor(neoPixel, p.pin, p.index, p.color)
                /\ queue' = Append(Tail(queue), Frame(0, "set", <<>>, p.address, p.color,
                                                            p.pin, p.index))
    /\ UNCHANGED <<state, version, firmata, oneWireDevices, fm, respFm, call, req, wire,
                   search, nFrames, cfgFirst, cfgLast, decodeVars>>

\* ------------------------------------------------------ OneWire
Founds == {<<>>, <<11>>, <<12, 11>>}
OneWireOps == {"search", "write", "read", "writeAndRead"}
OneWireReads == {"read", "writeAndRead"}
FreeSearches == {s \in Searches : ~search[s].on /\ search[s].step \notin {"search", "read"}}

\* a OneWire command written to the transport; device is devices[0] of the caller
OneWireFrame(type, pin, device) == [type |-> type, pin |-> pin, device |-> device]
FirstOf(devices) == IF devices = <<>> THEN 0 ELSE devices[1]

\* what .then(devices => ...) of oneWireWrite, oneWireRead, oneWireWriteAndRead
\* writes for a call of method op
CommandsOf(op, pin, devices) ==
    IF op = "search" THEN <<>>
    ELSE <<[f |-> firmata, frame |-> OneWireFrame(op, pin, FirstOf(devices))]>>

\* searchOneWireDevices(pin), called by the application (op "search") or by
\* oneWireWrite, oneWireRead, oneWireWriteAndRead.  On a pin that is not in ONEWIRE
\* mode: sendOneWireConfig, sendOneWireSearch.  On a pin in ONEWIRE mode the
\* promise resolves with this.oneWireDevices and the method goes on at once.
oneWire(op, pin) ==
    /\ firmata # 0
    /\ IF pin \notin fm[firmata].ow
       THEN /\ FreeSearches # {}
            /\ search' = [search EXCEPT ![Least(FreeSearches)] =
                             [f |-> firmata, pin |-> pin, op |-> op, step |-> "search",
                              on |-> TRUE, status |-> "pending"]]
            /\ events' = Sent(<<[f |-> firmata, frame |-> OneWireFrame("search", pin, 0)]>>)
       ELSE /\ op \in OneWireReads => FreeSearches # {}
            /\ search' = IF op \in OneWireReads
                         THEN [search EXCEPT ![Least(FreeSearches)] =
                                  [f |-> firmata, pin |-> pin, op |-> op, step |-> "read",
                                   on |-> FALSE, status |-> "pending"]]
                         ELSE search
            /\ events' = Sent(CommandsOf(op, pin, oneWireDevices))
    /\ UNCHANGED <<boardVars, fm, respFm, call, req, wire, queueVars,
                   cfgFirst, cfgLast, decodeVars>>

searchOneWireDevices(pin) == oneWire("search", pin)
oneWireWrite(pin) == oneWire("write", pin)
oneWireRead(pin) == oneWire("read", pin)
oneWireWriteAndRead(pin) == oneWire("writeAndRead", pin)

\* the commands the calls in cont write, call by call
RECURSIVE CommandsOfAll(_, _, _)
CommandsOfAll(cont, pin, devices) ==
    IF cont = {} THEN <<>>
    ELSE CommandsOf(search[Least(cont)].op, pin, devices)
            \o CommandsOfAll(cont \ {Least(cont)}, pin, devices)

\* a search callback that switches the pin to ONEWIRE mode whatever was found
SearchSucceedsWithoutDevice(founds) == firmata # 0

\* the test of the search callback: founds.length < 1 rejects
SearchSucceeds(founds) == Len(founds) >= 1 /\ firmata # 0

\* The search reply for pin arrives on Firmata object f: every once-listener the
\* library holds for it runs its callback with the ids found.  With no id the
\* promise rejects; else the pin is switched to ONEWIRE mode, the ids are kept and
\* the calls whose search promise was pending go on.
searchReply(f, pin, founds) ==
    LET fired == {s \in Searches : search[s].on /\ search[s].f = f /\ search[s].pin = pin}
        cont == {s \in fired : search[s].step = "search"}
        ok == SearchSucceeds(founds)
    IN
    /\ fired # {}
    /\ fm[f].open
    /\ search' = [s \in Searches |->
                    IF s \notin fired THEN search[s]
                    ELSE IF s \notin cont THEN [search[s] EXCEPT !.on = FALSE]
                    ELSE [search[s] EXCEPT
                            !.on = FALSE,
                            !.step = IF ok /\ search[s].op \in OneWireReads THEN "read"
                                     ELSE "end",
                            !.status = IF @ # "pending" \/ (ok /\ search[s].op \in OneWireReads)
                                       THEN @
                                       ELSE IF Len(founds) < 1 THEN "no device"
                                       ELSE IF ok THEN "resolved"
                                       ELSE "dropped"]]
    /\ fm' = IF ok THEN [fm EXCEPT ![firmata].ow = @ \cup {pin}, ![firmata].found[pin] = founds]
             ELSE fm
    /\ oneWireDevices' = IF ok THEN founds ELSE oneWireDevices
    /\ events' = Sent(IF ok THEN CommandsOfAll(cont, pin, founds) ELSE <<>>)
    /\ UNCHANGED <<state, version, firmata, neoPixel, respFm, call, req, wire, queueVars,
                   cfgFirst, cfgLast, decodeVars>>

\* a search whose timer never reports
searchWithoutTimer(s) ==
    /\ search[s].step = "search"
    /\ search[s].on
    /\ UNCHANGED vars

\* the library's search timer runs out before the reply: the callback gets the
\* error and the promise rejects; the once-listener stays registered
searchTimeout(s) ==
    /\ search[s].step = "search"
    /\ search[s].on
    /\ search' = [search EXCEPT ![s].step = "end",
                                ![s].status = IF @ = "pending" THEN "error" ELSE @]
    /\ events' = Emitted(<<>>)
    /\ UNCHANGED <<boardVars, fm, respFm, call, req, wire, queueVars, cfgFirst, cfgLast, decodeVars>>

\* the reply (error = FALSE) or the library's read error (error = TRUE) for the read
\* command of call s
oneWireReadReply(s, error) ==
    /\ search[s].step = "read"
    /\ fm[search[s].f].open
    /\ search' = [search EXCEPT ![s].step = "end",
                                ![s].status = IF @ # "pending" THEN @
                                              ELSE IF error THEN "error" ELSE "resolved"]
    /\ events' = Emitted(<<>>)
    /\ UNCHANGED <<boardVars, fm, respFm, call, req, wire, queueVars, cfgFirst, cfgLast, decodeVars>>

\* timeoutReject(timeout) wins the race of oneWireRead / oneWireWriteAndRead call s:
\* the caller's promise rejects, the request goes on
oneWireTimeout(s) ==
    /\ search[s].op \in OneWireReads
    /\ search[s].status = "pending"
    /\ search' = [search EXCEPT ![s].status = "timeout"]
    /\ events' = Emitted(<<>>)
    /\ UNCHANGED <<boardVars, fm, respFm, call, req, wire, queueVars, cfgFirst, cfgLast, decodeVars>>

\* ------------------------------------------------------ specifications
\* the connection life cycle: connect calls, bring-up, transport events, disconnect
Lifecycle ==
    \/ connectSerial
    \/ connectMIDI
    \/ \E kind \in {"serial", "midi"} : connectAlready(kind)
    \/ \E c \in Calls : openPortResolved(c)
    \/ \E c \in Calls : openPortRejected(c)
    \/ \E c \in Calls : firmataReadyCallback(c)
    \/ \E c \in Calls : analogMappingReply(c)
    \/ \E c \in Calls : connectTimeout(c)
    \/ disconnectCall
    \/ disconnectCallResetThrows
    \/ \E f \in Calls : onOpen(f)
    \/ \E f \in Calls : onClose(f)
    \/ \E f \in Calls : onDisconnect(f)
    \/ \E f \in Calls : onError(f)
    \/ \E r \in Reqs, empty \in BOOLEAN : deliverReply(r, empty)
    \/ \E r \in Reqs : requestTimeout(r)

Next == Lifecycle

Spec == Init /\ [][Next]_vars

\* serial and MIDI sessions of an application that calls connect again whatever
\* the state is, while the transport opens, closes or fails
NextConnect ==
    \/ connectSerial
    \/ connectMIDI
    \/ \E kind \in {"serial", "midi"} : connectAlready(kind)
    \/ \E c \in Calls : openPortResolved(c)
    \/ \E c \in Calls : openPortRejected(c)
    \/ \E c \in Calls : firmataReadyCallback(c)
    \/ \E c \in Calls : analogMappingReply(c)
    \/ \E c \in Calls : connectTimeout(c)
    \/ disconnectCall
    \/ \E f \in Calls : onOpen(f)
    \/ \E f \in Calls : onClose(f)
    \/ \E f \in Calls : onError(f)
    \/ \E r \in Reqs : deliverReply(r, FALSE)
    \/ \E r \in Reqs : requestTimeout(r)

SpecConnect == Init /\ [][NextConnect]_vars

\* the device queries of the application
Queries ==
    \/ boardVersion
    \/ \E pin \in Pins : getDistanceByUltrasonic(pin)
    \/ \E pin \in Pins : getWaterTemp(pin)

\* one serial connection after another, each ended by disconnect()
SerialSessions ==
    \/ connectCall("serial", 1)
    \/ \E c \in Calls : openPortResolved(c)
    \/ \E c \in Calls : firmataReadyCallback(c)
    \/ \E c \in Calls : connectTimeout(c)
    \/ disconnectCall
    \/ \E r \in Reqs, empty \in BOOLEAN : deliverReply(r, empty)
    \/ \E r \in Reqs : requestTimeout(r)

NextQuery == SerialSessions \/ Queries

SpecQuery == Init /\ [][NextQuery]_vars

\* a serial session that drives NeoPixel strips
NextStrip ==
    \/ connectCall("serial", 1)
    \/ \E c \in Calls : openPortResolved(c)
    \/ \E c \in Calls : firmataReadyCallback(c)
    \/ \E r \in Calls : deliverReply(r, FALSE)
    \/ \E pin \in Pins, length \in Lengths : neoPixelConfigStrip(pin, length)
    \/ \E pin \in Pins, color \in Colors, index \in Indexes :
          neoPixelSetColor(pin, color, index)
    \/ \E pin \in Pins, color \in Colors, index \in Indexes :
          neoPixelSetColorUnconfigured(pin, color, index)
    \/ queueRun

SpecStrip == Init /\ [][NextStrip]_vars

\* serial sessions, ended by disconnect(), whose application configures strips of
\* the default length, sets their first two pixels and shows them while the write
\* scheduler works its queue off
NextScheduler ==
    \/ connectCall("serial", 1)
    \/ \E c \in Calls : openPortResolved(c)
    \/ \E c \in Calls : firmataReadyCallback(c)
    \/ \E r \in Calls : deliverReply(r, FALSE)
    \/ disconnectCall
    \/ \E pin \in Pins : neoPixelConfigStrip(pin, defaultNeoPixelLength)
    \/ \E pin \in Pins, color \in Colors, index \in {0, 1} :
          neoPixelSetColor(pin, color, index)
    \/ \E pin \in Pins, color \in Colors, index \in {0, 1} :
          neoPixelSetColorUnconfigured(pin, color, index)
    \/ neoPixelShow
    \/ queueRun

SpecScheduler == Init /\ [][NextScheduler]_vars

\* a serial session whose application configures strips, sets pixels and fills
\* with a colorMapFn that returns null
NextFill ==
    \/ NextStrip
    \/ \E pin \in Pins : neoPixelFillColorNull(pin)

SpecFill == Init /\ [][NextFill]_vars

\* serial sessions that configure a strip on pin 3 and search the OneWire bus of
\* pin 7, and every way a session is torn down
NextRelease ==
    \/ connectCall("serial", 1)
    \/ \E c \in Calls : openPortResolved(c)
    \/ \E c \in Calls : firmataReadyCallback(c)
    \/ \E r \in Calls : deliverReply(r, FALSE)
    \/ \E c \in Calls : connectTimeout(c)
    \/ disconnectCall
    \/ \E f \in Calls : onClose(f)
    \/ \E f \in Calls : onDisconnect(f)
    \/ \E f \in Calls : onError(f)
    \/ neoPixelConfigStrip(3, defaultNeoPixelLength)
    \/ searchOneWireDevices(7)
    \/ \E f \in Calls, founds \in Founds : searchReply(f, 7, founds)
    \/ \E s \in Searches : searchTimeout(s)
    \/ queueRun

SpecRelease == Init /\ [][NextRelease]_vars

\* one serial session whose application uses the OneWire buses of two pins
NextOneWire ==
    \/ connectCall("serial", 1)
    \/ \E c \in Calls : openPortResolved(c)
    \/ \E c \in Calls : firmataReadyCallback(c)
    \/ \E r \in Calls : deliverReply(r, FALSE)
    \/ \E pin \in Pins : searchOneWireDevices(pin)
    \/ \E pin \in Pins : oneWireWrite(pin)
    \/ \E pin \in Pins : oneWireRead(pin)
    \/ \E pin \in Pins : oneWireWriteAndRead(pin)
    \/ \E f \in Calls, pin \in Pins, founds \in Founds : searchReply(f, pin, founds)
    \/ \E s \in Searches : searchTimeout(s)
    \/ \E s \in Searches, error \in BOOLEAN : oneWireReadReply(s, error)
    \/ \E s \in Searches : oneWireTimeout(s)

SpecOneWire == Init /\ [][NextOneWire]_vars

\* one serial session that configures a strip on pin 3, has a OneWire bus with one
\* device on pin 7, and whose application makes every kind of device query; the
\* board answers the bring-up and the bus search, and lets the queries time out
NextTimeout ==
    \/ connectCall("serial", 1)
    \/ \E c \in Calls : openPortResolved(c)
    \/ \E c \in Calls : firmataReadyCallback(c)
    \/ \E r \in Calls : deliverReply(r, FALSE)
    \/ neoPixel = <<>> /\ neoPixelConfigStrip(3, defaultNeoPixelLength)
    \/ queueRun
    \/ boardVersion
    \/ i2cReadOnce(7)
    \/ getDistanceByUltrasonic(3)
    \/ getWaterTemp(3)
    \/ oneWireRead(7)
    \/ \E f \in Calls : searchReply(f, 7, <<11>>)
    \/ \E s \in Searches : oneWireTimeout(s)
    \/ \E r \in Reqs : requestTimeout(r)

SpecTimeout == Init /\ [][NextTimeout]_vars

\* one serial session whose application searches the OneWire buses of two pins
\* again and again
NextSearch ==
    \/ connectCall("serial", 1)
    \/ \E c \in Calls : openPortResolved(c)
    \/ \E c \in Calls : firmataReadyCallback(c)
    \/ \E r \in Calls : deliverReply(r, FALSE)
    \/ \E pin \in Pins : searchOneWireDevices(pin)
    \/ \E f \in Calls, pin \in Pins, founds \in Founds : searchReply(f, pin, founds)
    \/ \E s \in Searches : searchTimeout(s)

SpecSearch == Init /\ [][NextSearch]_vars

\* the same session with time passing: the timer of a search that is not answered
\* runs out; nothing obliges the board to answer
SpecSearchFair == SpecSearch /\ \A s \in Searches : WF_vars(searchTimeout(s))

\* one serial session whose application makes overlapping device queries; the
\* board answers them in any order, with or without data, or not in time
NextKeys ==
    \/ connectCall("serial", 1)
    \/ \E c \in Calls : openPortResolved(c)
    \/ \E c \in Calls : firmataReadyCallback(c)
    \/ \E r \in Reqs, empty \in BOOLEAN : deliverReply(r, empty)
    \/ \E r \in Reqs : requestTimeout(r)
    \/ Queries

SpecKeys == Init /\ [][NextKeys]_vars

\* an application that calls connectSerial / connectMIDI again without waiting for
\* the call before to settle; the board answers, sessions end by disconnect()
NextOverlap ==
    \/ \E kind \in {"serial", "midi"} : connectCall(kind, MaxConn)
    \/ \E kind \in {"serial", "midi"} : connectAlready(kind)
    \/ \E c \in Calls : openPortResolved(c)
    \/ \E c \in Calls : firmataReadyCallback(c)
    \/ \E c \in Calls : analogMappingReply(c)
    \/ \E r \in Calls : deliverReply(r, FALSE)
    \/ disconnectCall

SpecOverlap == Init /\ [][NextOverlap]_vars

\* the decoder applied to every payload of two 7-bit bytes
InitDecode ==
    /\ InitBoard
    /\ bytes \in Bytes \X Bytes
    /\ result = <<>>

NextDecode == decodeReply

SpecDecode == InitDecode /\ [][NextDecode]_vars

\* ------------------------------------------------------------ properties
Range(seq) == {seq[i] : i \in 1..Len(seq)}
Count(seq, x) == Cardinality({i \in 1..Len(seq) : seq[i] = x})
LossEvents == {"close", "disconnect", "error"}

\* the step delivers the reply frame the board sent for query r
ReplyDelivered(r) == r \in wire /\ r \notin wire' /\ req'[r].f = req[r].f

\* the step delivers the loss event ev of Firmata object f
LossDelivered(f) == Len(events'.from) = 2 /\ events'.from[1] \in LossEvents /\ events'.from[2] = f

\* C1: once a boardVersion, getDistanceByUltrasonic or getWaterTemp call has failed
\* with a timeout, the reply that arrives afterwards never resolves that request and
\* never changes session state: the step that delivers it leaves the request timed
\* out and leaves version, state and the transport reference as they were.
C1_LateReplyChangesNothing ==
    [][\A r \in Reqs :
          (req[r].status = "timeout" /\ ReplyDelivered(r)) =>
              /\ req'[r] = req[r]
              /\ version' = version
              /\ state' = state
              /\ firmata' = firmata]_vars

\* C2: when a request has timed out and a newer request on the same key is waiting,
\* the late reply frame that answers the timed-out request is dropped: the step
\* that delivers it settles no request.
C2_LateReplyIsDropped ==
    [][\A r \in Reqs :
          (req[r].status = "timeout" /\ ReplyDelivered(r)) =>
              \A q \in Reqs : req'[q].status = req[q].status /\ req'[q].by = req[q].by]_vars

\* C3: once a connect call has been rejected by the connection timeout or a bring-up
\* error, and as long as no newer connect call is made, the session is torn down:
\* state is disconnected, the transport reference is null, and no step emits ready.
C3_RejectedConnectStaysTornDown ==
    LET made == {c \in Calls : call[c].kind # "none"} IN
    (/\ made # {}
     /\ \A c \in made : call[c].outcome = "rejected" /\ call[c].phase # "noport")
    => /\ state = "disconnect"
       /\ firmata = 0
       /\ "ready" \notin Range(events.emitted)

\* C4: when a transport close, disconnect or error event has torn the session down,
\* version is null.
C4_VersionNullAfterLoss ==
    (/\ Len(events.from) = 2
     /\ events.from[1] \in LossEvents
     /\ "RELEASED" \in Range(events.emitted))
    => version = 0

\* C5: every teardown (by a transport event, by disconnect(), by a failed connect)
\* ends with state disconnected, the strip registry empty, the OneWire device cache
\* empty and the transport reference null, and emits disconnect followed by
\* RELEASED; a connect call made in the state a teardown leaves enters
\* portRequesting.
C5_TeardownPostconditions ==
    [][/\ "RELEASED" \in Range(events'.emitted) =>
            /\ state' = "disconnect"
            /\ neoPixel' = <<>>
            /\ oneWireDevices' = <<>>
            /\ firmata' = 0
            /\ \E i \in 1..(Len(events'.emitted) - 1) :
                  events'.emitted[i] = "disconnect" /\ events'.emitted[i + 1] = "RELEASED"
       /\ (/\ state = "disconnect"
           /\ firmata = 0
           /\ \E c \in Calls : call'[c].outcome = "pending" /\ call[c].outcome # "pending")
          => state' = "portRequesting"]_vars

\* a transport event has just torn down a session that had searched the OneWire
\* bus with success and had a strip configured
C5_TeardownClearedCaches ==
    /\ Len(events.from) = 2
    /\ "RELEASED" \in Range(events.emitted)
    /\ \E s \in Searches : search[s].status = "resolved" /\ search[s].f = events.from[2]
    /\ \E i \in 1..Len(queue) : queue[i].type = "config"
    /\ neoPixel = <<>>
    /\ oneWireDevices = <<>>

\* C6: a teardown that runs while the state is already disconnected emits no
\* further disconnect or RELEASED event.
C6_TeardownIdempotent ==
    [][state = "disconnect" =>
          /\ "disconnect" \notin Range(events'.emitted)
          /\ "RELEASED" \notin Range(events'.emitted)]_vars

\* C7: a close, disconnect or error event delivered for the session in use while it
\* is not disconnected runs the teardown, which emits disconnect and RELEASED once
\* each; delivered for a session that is torn down it emits neither.
C7_LossEventTearsDownOnce ==
    [][\A f \in Calls :
          LossDelivered(f) =>
              IF firmata = f /\ state # "disconnect"
              THEN /\ Count(events'.emitted, "disconnect") = 1
                   /\ Count(events'.emitted, "RELEASED") = 1
              ELSE /\ Count(events'.emitted, "disconnect") = 0
                   /\ Count(events'.emitted, "RELEASED") = 0]_vars

\* C8: a close, disconnect or error event delivered for the session in use while
\* its state is connect or ready tears the session down and emits the
\* connection-lost notification to the runtime.
C8_LossIsNotified ==
    [][\A f \in Calls :
          (LossDelivered(f) /\ firmata = f /\ state \in {"connect", "ready"}) =>
              /\ state' = "disconnect"
              /\ firmata' = 0
              /\ events'.emitted = <<"LOST", "disconnect", "RELEASED">>]_vars

\* the pins of the registry, in registry order
PinsOf(np) == [i \in 1..Len(np) |-> np[i].pin]

\* the summed lengths of the strips of the pins in S
RECURSIVE LengthSum(_, _)
LengthSum(np, S) ==
    IF np = <<>> THEN 0
    ELSE (IF Head(np).pin \in S THEN Head(np).length ELSE 0) + LengthSum(Tail(np), S)

\* the step is a neoPixelSetColor call on a configured pin: it hands one set frame
\* to the write scheduler
SetColorStep ==
    /\ Len(queue') = Len(queue) + 1
    /\ queue'[Len(queue')].type = "set"

\* the set frame is addressed after the strips that come before its pin in the order `clock`
AddressedBy(clock) ==
    LET frame == queue'[Len(queue')]
        before == {p \in Pins : HasStrip(neoPixel, p) /\ clock[p] < clock[frame.pin]}
    IN frame.address = LengthSum(neoPixel, before)
                         + (frame.index % StripOf(neoPixel, frame.pin).length)

ConfigStep(pin) ==
    /\ Len(queue') = Len(queue) + 1
    /\ queue'[Len(queue')].type = "config"
    /\ queue'[Len(queue')].pin = pin

ImplicitConfigStep(p) ==
    /\ p \in pend' \ pend
    /\ Len(queue') = Len(queue) + 1
    /\ queue'[Len(queue')] = Frame(p.wait, "config", ConfigTable(neoPixel'), 0, 0, p.pin, 0)

\* the step sends the configuration frame the suspended call p awaits, and p continues
ContinuationStep(p) ==
    /\ p \in pend \ pend'
    /\ Len(events'.sent) = 1
    /\ HasStrip(neoPixel, p.pin)

\* C11: neoPixelSetColor(pin, color, index) on a pin without a strip registers the
\* pin with the default length 3 and hands the configuration frame to the write
\* scheduler; when that frame is sent the call hands over a set frame whose
\* address is the summed length of the strips registered before the call plus
\* index mod 3.
C11_ImplicitConfigurationAddress ==
    [][\A p \in pend \cup pend' :
          /\ ImplicitConfigStep(p) =>
                /\ neoPixel' = Append(neoPixel, [pin |-> p.pin,
                                                 length |-> defaultNeoPixelLength,
                                                 colors |-> <<>>])
                /\ p.address = LengthSum(neoPixel, Pins) + (p.index % defaultNeoPixelLength)
          /\ ContinuationStep(p) =>
                queue'[Len(queue')] = Frame(0, "set", <<>>, p.address, p.color,
                                            p.pin, p.index)]_vars

\* the NeoPixel frames among the frames a step wrote
StripFrames(sent) ==
    LET Test(w) == w.frame.type \in {"config", "set", "show"} IN SelectSeq(sent, Test)

\* the callbacks of a queue, without the history of the session they were handed over in
Callbacks(q) == [i \in 1..Len(q) |-> [q[i] EXCEPT !.f = 0]]

IsPrefix(a, b) == Len(a) <= Len(b) /\ SubSeq(Callbacks(b), 1, Len(a)) = Callbacks(a)

\* C12: the frames handed to the write scheduler are written one at a time and in
\* the order they were handed over: a step writes at most one frame, the frame it
\* writes is the one that has waited longest, and a frame handed over takes its
\* place behind all that wait.
C12_FramesSentInOrder ==
    [][LET wrote == StripFrames(events'.sent) IN
       /\ Len(wrote) <= 1
       /\ Len(wrote) = 1 =>
             /\ queue # <<>>
             /\ wrote[1].frame = Head(queue)
             /\ IsPrefix(Tail(queue), queue')
       /\ Len(wrote) = 0 =>
             \/ IsPrefix(queue, queue')
             \/ queue # <<>> /\ IsPrefix(Tail(queue), queue')]_vars

\* a show frame is written after the configuration frame and the set frame that
\* were handed over before it, while a frame handed over after it waits
C12_ShowSentAfterEarlierFrames ==
    /\ Len(events.sent) = 1
    /\ events.sent[1].frame.type = "show"
    /\ nFrames = MaxFrames
    /\ Len(queue) = 1
    /\ Len(neoPixel) = 1
    /\ neoPixel[1].colors # <<>>

\* C13: no frame handed to the write scheduler is lost: the step that takes a
\* frame from the queue writes it to the transport.
C13_NoFrameLost ==
    [][(queue # <<>> /\ IsPrefix(Tail(queue), queue') /\ ~IsPrefix(queue, queue'))
          => /\ Len(events'.sent) = 1
             /\ events'.sent[1].frame = Head(queue)]_vars

\* the step is a neoPixelFillColor(pin, () => null) call
FillColorNullStep(pin) == events'.from = <<"neoPixelFillColor", pin>>

\* C14: neoPixelFillColor(pin, colorMapFn) with a colorMapFn that returns null for
\* every index hands no frame to the write scheduler and leaves the strip registry,
\* with every strip's color buffer, as it was.
C14_FillColorNullChangesNothing ==
    [][\A pin \in Pins :
          FillColorNullStep(pin) => queue' = queue /\ neoPixel' = neoPixel]_vars

\* the OneWire commands of the given type among the frames a step wrote
OneWireSent(sent, types) ==
    LET Test(w) == w.frame.type \in types IN SelectSeq(sent, Test)

\* the step is the search reply that tells call s that no device was found
NoDeviceStep(s) == search[s].status = "pending" /\ search'[s].status = "no device"

\* the step is a OneWire call that has to wait for a bus search
SearchCallStep(s) == search'[s].step = "search" /\ search[s].step # "search"

\* C15: when the bus search of a pin finds no device the call fails with 'no
\* device', the pin is not in ONEWIRE mode and the device cache is as it was; a
\* call on a pin that is not in ONEWIRE mode sends a search command for the pin.
C15_NoDeviceLeavesPinUnconfigured ==
    [][\A s \in Searches :
          /\ NoDeviceStep(s) =>
                /\ search[s].pin \notin fm'[search[s].f].ow
                /\ oneWireDevices' = oneWireDevices
                /\ events'.sent = <<>>
          /\ SearchCallStep(s) =>
                /\ search'[s].pin \notin fm[firmata].ow
                /\ OneWireSent(events'.sent, {"search"}) =
                      <<[f |-> firmata,
                         frame |-> OneWireFrame("search", search'[s].pin, 0)]>>]_vars

\* a search command has just been sent for a pin whose search before found no device
C15_SearchAgainAfterNoDevice ==
    \E s, t \in Searches :
        /\ search[s].status = "no device"
        /\ search[t].step = "search"
        /\ search[t].pin = search[s].pin
        /\ search[t].f = search[s].f
        /\ Len(OneWireSent(events.sent, {"search"})) = 1
        /\ events.sent[1].frame.pin = search[s].pin
        /\ search[s].pin \notin fm[firmata].ow

\* C16: a OneWire write, read or write-and-read command on a pin carries the first
\* device id that the bus search of that pin found.
C16_CommandTargetsDeviceOfPin ==
    [][\A i \in 1..Len(events'.sent) :
          LET w == events'.sent[i] IN
          w.frame.type \in {"write", "read", "writeAndRead"} =>
              w.frame.device = FirstOf(fm'[w.f].found[w.frame.pin])]_vars

\* C17: within a session a search command is sent for a pin only when every search
\* command sent for the pin before has failed: none is sent while a search of the
\* pin awaits its reply.
C17_NoSearchWhileSearching ==
    [][\A i \in 1..Len(events'.sent) :
          LET w == events'.sent[i] IN
          w.frame.type = "search" =>
              ~\E s \in Searches : /\ search[s].step = "search"
                                   /\ search[s].f = w.f
                                   /\ search[s].pin = w.frame.pin]_vars

\* the step is the timeout of a device query the application made: its promise,
\* pending before, is rejected with the timeout
QueryTimeoutStep ==
    \/ \E r \in UserReqs : req[r].status = "pending" /\ req'[r].status = "timeout"
    \/ \E s \in Searches : search[s].status = "pending" /\ search'[s].status = "timeout"

\* C18: the timeout of a device query (boardVersion outside the bring-up,
\* i2cReadOnce, oneWireRead, getDistanceByUltrasonic, getWaterTemp) leaves the
\* state, the transport reference, the strip registry and the OneWire device cache
\* as they were and emits no event.
C18_QueryTimeoutChangesNoSession ==
    [][QueryTimeoutStep =>
          /\ state' = state
          /\ firmata' = firmata
          /\ neoPixel' = neoPixel
          /\ oneWireDevices' = oneWireDevices
          /\ events'.emitted = <<>>]_vars

\* an I2C read and a OneWire read have timed out in a ready session that has a
\* strip and a filled device cache
C18_TimedOutInReadySession ==
    /\ \E r \in UserReqs : req[r].op = "i2c" /\ req[r].status = "timeout"
    /\ \E s \in Searches : search[s].op = "read" /\ search[s].status = "timeout"
    /\ state = "ready"
    /\ firmata # 0
    /\ neoPixel # <<>>
    /\ oneWireDevices # <<>>

\* the step is a connectSerial or connectMIDI call
ConnectCallStep == \E kind \in {"serial", "midi"} : events'.from = <<kind, 0>>

\* C19: connectSerial / connectMIDI called while the state is connect or ready
\* changes nothing: the state stays, no port is requested, no Firmata object is
\* made, the transport reference stays and no event is emitted.
C19_ConnectWhileConnectedIsNoOp ==
    [][(ConnectCallStep /\ state \in {"connect", "ready"}) =>
          /\ state' = state
          /\ firmata' = firmata
          /\ call' = call
          /\ fm' = fm
          /\ events'.emitted = <<>>]_vars

\* a connect call has just been made in a ready session
C19_ConnectCalledWhenReady ==
    /\ \E kind \in {"serial", "midi"} : events.from = <<kind, 0>>
    /\ state = "ready"
    /\ firmata # 0
    /\ \E c \in Calls : call[c].outcome = "resolved"

\* C20: every change of the state is disconnect to portRequesting, portRequesting
\* to connect, connect to ready, or from any state to disconnect.
C20_StateChangesFollowTheOrder ==
    [][state' # state =>
          \/ state' = "disconnect"
          \/ <<state, state'>> \in {<<"disconnect", "portRequesting">>,
                                    <<"portRequesting", "connect">>,
                                    <<"connect", "ready">>}]_vars

\* the step emits ready
ReadyStep == "ready" \in Range(events'.emitted)

\* C21: a step that emits ready emits it once, for the Firmata object in use, and
\* the board-identity query of that connection was written to that object's
\* transport and has been answered.
C21_ReadyAfterIdentityQuery ==
    [][ReadyStep =>
          /\ Count(events'.emitted, "ready") = 1
          /\ firmata' # 0
          /\ req'[firmata'].op = "version"
          /\ req'[firmata'].f = firmata'
          /\ req'[firmata'].status = "resolved"]_vars

\* the step is a disconnect() call
DisconnectCallStep == events'.from = <<"disconnectCall", 0>>

\* C22: disconnect() called while the state is not disconnect ends with state
\* disconnect and the transport reference null, and emits disconnect, then
\* RELEASED, also when the reset notification cannot be written.
C22_DisconnectCompletes ==
    [][(DisconnectCallStep /\ state # "disconnect") =>
          /\ state' = "disconnect"
          /\ firmata' = 0
          /\ events'.emitted = <<"disconnect", "RELEASED">>]_vars

\* requests q and r are correlated by different keys
OtherKey(q, r) == req[q].op # req[r].op \/ req[q].pin # req[r].pin

\* request r is answered or times out in this step
KeyStep(r) ==
    \/ ReplyDelivered(r)
    \/ req[r].status = "pending" /\ req'[r].status = "timeout"

\* C23: the reply to a request, or its timeout, leaves every request that is
\* correlated by a different key as it was: not settled, its listener registered.
C23_OtherKeysUntouched ==
    [][\A r \in Reqs, q \in Reqs :
          (KeyStep(r) /\ req[q].op # "none" /\ OtherKey(q, r)) => req'[q] = req[q]]_vars

\* a request was answered while a request of another key, sent on the same Firmata
\* object, stays pending with its listener
C23_AnsweredBesidePending ==
    \E r \in UserReqs, q \in UserReqs :
        /\ req[r].status = "resolved" /\ req[r].by = r
        /\ req[q].status = "pending" /\ req[q].on
        /\ req[q].f = req[r].f
        /\ OtherKey(q, r)

\* the race of oneWireRead / oneWireWriteAndRead call s is lost to the timeout in this step
OneWireTimeoutStep(s) == search[s].status = "pending" /\ search'[s].status = "timeout"

\* C24: when oneWireRead or oneWireWriteAndRead fails with a timeout, no listener
\* of that request remains: neither the search listener nor the read listener is
\* still waiting for a reply.
C24_TimeoutRemovesListener ==
    [][\A s \in Searches :
          OneWireTimeoutStep(s) =>
              ~search'[s].on /\ search'[s].step \notin {"search", "read"}]_vars

C26_DecodesSignExtended14Bits ==
    result # <<>> =>
        LET v == bytes[1] + 128 * bytes[2] IN
        result[1] = IF v < 8192 THEN v ELSE v - 16384

\* [0x7F, 0x01] was decoded, to 255
C26_Decoded255 == bytes = <<127, 1>> /\ result = <<255>>

\* a payload with bit 13 set was decoded, to a negative value
C26_DecodedNegative == bytes = <<127, 127>> /\ result = <<-1>>

\* C27: a frame handed to the write scheduler while a Firmata object was in use
\* is written to the transport of that object only, never to the transport of
\* the object of a later session.
C27_FrameStaysInItsSession ==
    [][\A i \in 1..Len(events'.sent) :
          events'.sent[i].frame.f # 0 => events'.sent[i].f = events'.sent[i].frame.f]_vars

\* C28: at most one Firmata object with an open transport exists at any time,
\* also when a connect call is made while another one is waiting for its port or
\* for the bring-up.
C28_AtMostOneSession ==
    Cardinality({c \in Calls : fm[c].made /\ fm[c].open}) <= 1

\* the step hands a set frame to the write scheduler: a neoPixelSetColor call on a
\* configured pin, or the continuation of a suspended one
SetFrameHanded ==
    /\ queue' # <<>>
    /\ queue'[Len(queue')].type = "set"
    /\ \/ queue' = Append(queue, queue'[Len(queue')])
       \/ queue # <<>> /\ queue' = Append(Tail(queue), queue'[Len(queue')])

\* the strip table of the last configuration frame that is sent before the set
\* frame handed over in this step: the last one waiting in front of it, else the
\* one sent in this step, else the one of the registry (every configuration frame
\* carries the registry of its moment)
LatestTable ==
    LET cfgs == {i \in 1..(Len(queue') - 1) : queue'[i].type = "config"} IN
    IF cfgs # {} THEN queue'[CHOOSE i \in cfgs : \A j \in cfgs : j <= i].table
    ELSE IF events'.sent # <<>> /\ events'.sent[1].frame.type = "config"
         THEN events'.sent[1].frame.table
    ELSE ConfigTable(neoPixel)

\* the address of LED index of the strip of pin in a strip table
TableAddress(table, pin, index) ==
    LET k == CHOOSE i \in 1..Len(table) : table[i].pin = pin IN
    LengthSum(table, {table[j].pin : j \in 1..(k - 1)}) + (index % table[k].length)

\* C29: a set frame carries the address its LED has in the strip table of the
\* last configuration frame sent before it, also when neoPixelConfigStrip was
\* called while the neoPixelSetColor call was suspended in its implicit
\* configuration.
C29_AddressMatchesLatestTable ==
    [][SetFrameHanded =>
          LET frame == queue'[Len(queue')] IN
          /\ \E i \in 1..Len(LatestTable) : LatestTable[i].pin = frame.pin
          /\ frame.address = TableAddress(LatestTable, frame.pin, frame.index)]_vars

\* C30: after every call the cached color buffer of each strip has at most
\* length(strip) slots, and a neoPixelSetColor(pin, color, index) call has recorded
\* the color in slot index mod length(strip) of the strip of pin.
C30_ColorBufferFollowsStrip ==
    [][/\ \A i \in 1..Len(neoPixel') : Len(neoPixel'[i].colors) <= neoPixel'[i].length
       /\ SetFrameHanded =>
             LET frame == queue'[Len(queue')]
                 strip == StripOf(neoPixel', frame.pin)
                 slot == (frame.index % strip.length) + 1
             IN slot <= Len(strip.colors) /\ strip.colors[slot] = frame.color]_vars

====
